---- MODULE Spec2Model ----
(***************************************************************************)
(* partialjson: JSONParser (src/partialjson/json_parser.py).               *)
(*                                                                         *)
(* A text is a sequence of one-character strings.  Python indexes from 0,  *)
(* the model from 1; "not found" (-1 in Python) is 0 here.                 *)
(*                                                                         *)
(* A Python value is a record [t, s, kids]:                                *)
(*   t = "NoneType" | "bool" | "int" | "float" | "str" | "list" | "dict"   *)
(*   s    the characters of a str, the canonical digits of a number,       *)
(*        <<"true">> / <<"false">> for a bool                              *)
(*   kids the elements of a list; the items of a dict in insertion order,  *)
(*        each item a record of t = "item" with kids = <<key, value>>      *)
(***************************************************************************)
EXTENDS Integers, Sequences, FiniteSets, TLC

VARIABLES
    text,                  \* the argument s of the most recent parse call
    outcome,               \* how that call ended
    result,                \* the value it returned
    complete_keys,         \* the key list it returned
    last_parse_reminding,  \* self.last_parse_reminding
    hook_calls,            \* the calls of self.on_extra_token it made
    strict_ok,             \* whether json.loads(s) accepted the text
    frag,                  \* what parse_any returned or raised in that call
    reused                 \* the instance has been handed an unrelated text

vars == <<text, outcome, result, complete_keys, last_parse_reminding,
          hook_calls, strict_ok, frag, reused>>

----------------------------------------------------------------------------
(* Characters *)

Q == "\""
Backslash == "\\"

\* The characters the model feeds to the parser.
Alphabet == {"{", "}", "[", "]", Q, ":", ",", " ", Backslash, "1", ".", "-", "n", "u", "l"}

DigitChars == {"0", "1", "2", "3", "4", "5", "6", "7", "8", "9"}

\* "0123456789.-", the characters parse_number accumulates and dispatches on.
NumberChars == DigitChars \cup {".", "-"}

\* The whitespace keys of self.parsers.
SpaceChars == {" ", "\r", "\n", "\t"}

\* What str.strip() removes (the members the model can write down).
PyWhitespace == {" ", "\t", "\n", "\r", "\f"}

\* json.decoder.WHITESPACE
JsonWhitespace == {" ", "\t", "\n", "\r"}

\* Characters json's strict string scanner rejects when they appear raw.
ControlChars == {"\t", "\n", "\r", "\f", "<BS>"}

HexChars == DigitChars \cup {"a", "b", "c", "d", "e", "f", "A", "B", "C", "D", "E", "F"}

----------------------------------------------------------------------------
(* str operations *)

Drop(s, n) == SubSeq(s, n + 1, Len(s))

Take(s, n) == SubSeq(s, 1, IF n < Len(s) THEN n ELSE Len(s))

RECURSIVE lstrip(_)
lstrip(s) == IF s # <<>> /\ s[1] \in PyWhitespace THEN lstrip(Tail(s)) ELSE s

RECURSIVE rstrip(_)
rstrip(s) ==
    IF s # <<>> /\ s[Len(s)] \in PyWhitespace THEN rstrip(Take(s, Len(s) - 1)) ELSE s

strip(s) == rstrip(lstrip(s))

startswith(s, p) == Len(s) >= Len(p) /\ Take(s, Len(p)) = p

endswith(s, c) == s # <<>> /\ s[Len(s)] = c

\* s.find(c, from): the first index >= from holding c, 0 when there is none.
RECURSIVE find(_, _, _)
find(s, c, from) ==
    IF from > Len(s) THEN 0
    ELSE IF s[from] = c THEN from
    ELSE find(s, c, from + 1)

Contains(s, c) == \E i \in 1..Len(s) : s[i] = c

----------------------------------------------------------------------------
(* Python values *)

MkVal(t, s, kids) == [t |-> t, s |-> s, kids |-> kids]

PyNone == MkVal("NoneType", <<>>, <<>>)
PyTrue == MkVal("bool", <<"true">>, <<>>)
PyFalse == MkVal("bool", <<"false">>, <<>>)
PyInt(digits) == MkVal("int", digits, <<>>)
PyFloat(digits) == MkVal("float", digits, <<>>)
PyStr(s) == MkVal("str", s, <<>>)
PyList(elems) == MkVal("list", <<>>, elems)
PyDict(items) == MkVal("dict", <<>>, items)
Item(k, v) == MkVal("item", <<>>, <<k, v>>)

\* The placeholder of a call that returned nothing.
NoValue == MkVal("absent", <<>>, <<>>)

ItemKey(it) == it.kids[1]
ItemValue(it) == it.kids[2]

\* list(d.keys())
DictKeys(d) == [i \in 1..Len(d.kids) |-> ItemKey(d.kids[i])]

\* hash(key): lists and dicts are unhashable.
Hashable(v) == v.t \notin {"list", "dict"}

\* The number a bool or int or float key compares equal to, as canonical
\* float digits (True == 1 == 1.0, False == 0 == 0.0 == -0.0).
NumKey(v) ==
    IF v.t = "bool" THEN (IF v = PyTrue THEN <<"1", ".", "0">> ELSE <<"0", ".", "0">>)
    ELSE IF v.t = "int" THEN v.s \o <<".", "0">>
    ELSE IF v.s = <<"-", "0", ".", "0">> THEN <<"0", ".", "0">>
    ELSE v.s

\* k1 == k2 as dict keys
KeyEq(a, b) ==
    IF a.t \in {"bool", "int", "float"} /\ b.t \in {"bool", "int", "float"}
    THEN NumKey(a) = NumKey(b)
    ELSE a = b

\* The position of key k among the items, 0 when absent.
RECURSIVE KeyIndex(_, _, _)
KeyIndex(items, k, i) ==
    IF i > Len(items) THEN 0
    ELSE IF KeyEq(ItemKey(items[i]), k) THEN i
    ELSE KeyIndex(items, k, i + 1)

\* acc[key] = value on the items of a dict: an existing key keeps its place
\* (and its first spelling), a new key goes last.
DictSet(items, k, v) ==
    LET i == KeyIndex(items, k, 1) IN
    IF i = 0 THEN Append(items, Item(k, v))
    ELSE [items EXCEPT ![i] = Item(ItemKey(items[i]), v)]

----------------------------------------------------------------------------
(* int(num_str) and float(num_str) *)

AllDigits(s) == s # <<>> /\ \A i \in 1..Len(s) : s[i] \in DigitChars

RECURSIVE StripLeadingZeros(_)
StripLeadingZeros(s) ==
    IF Len(s) > 1 /\ s[1] = "0" THEN StripLeadingZeros(Tail(s)) ELSE s

RECURSIVE StripTrailingZeros(_)
StripTrailingZeros(s) ==
    IF Len(s) > 1 /\ s[Len(s)] = "0" THEN StripTrailingZeros(Take(s, Len(s) - 1)) ELSE s

Unsigned(s) == IF s # <<>> /\ s[1] = "-" THEN Tail(s) ELSE s

Sign(s) == IF s # <<>> /\ s[1] = "-" THEN <<"-">> ELSE <<>>

\* int() accepts an optional sign and digits.
IntOk(s) == AllDigits(Unsigned(s))

\* The digits of int(s): no leading zeros, no "-0".
IntDigits(s) ==
    LET d == StripLeadingZeros(Unsigned(s)) IN
    IF d = <<"0">> THEN d ELSE Sign(s) \o d

\* float() accepts, of the characters parse_number lets through, an optional
\* sign, digits, one point, digits, with a digit on at least one side.
FloatOk(s) ==
    LET u == Unsigned(s)
        p == find(u, ".", 1)
        ip == Take(u, p - 1)
        fp == Drop(u, p) IN
    /\ p # 0
    /\ ip = <<>> \/ AllDigits(ip)
    /\ fp = <<>> \/ AllDigits(fp)
    /\ ip # <<>> \/ fp # <<>>

\* repr(float(s)) for the magnitudes and lengths the model reaches (fewer
\* than 16 significant digits, 1e-4 <= |x| < 1e16).
FloatDigits(s) ==
    LET u == Unsigned(s)
        p == find(u, ".", 1)
        ip == IF p = 1 THEN <<"0">> ELSE StripLeadingZeros(Take(u, p - 1))
        fp == IF p = Len(u) THEN <<"0">> ELSE StripTrailingZeros(Drop(u, p)) IN
    Sign(s) \o ip \o <<".">> \o fp

----------------------------------------------------------------------------
(* The strict decoder: json.loads *)

\* A local variable: body applied to a value that is computed once.
With(value, body(_)) == body(value)

\* A scan yields the value and the index after it, or fails; eof tells a
\* failure where the text ended while the grammar wanted more.
ScanOk(v, i) == [ok |-> TRUE, v |-> v, i |-> i, eof |-> FALSE]
ScanFail(eof) == [ok |-> FALSE, v |-> NoValue, i |-> 0, eof |-> eof]

RECURSIVE skip_ws(_, _)
skip_ws(s, i) ==
    IF i <= Len(s) /\ s[i] \in JsonWhitespace THEN skip_ws(s, i + 1) ELSE i

\* json.decoder.BACKSLASH
EscapeChars == {Q, Backslash, "/", "b", "f", "n", "r", "t"}

Unescape(c) ==
    CASE c = "b" -> "<BS>"
      [] c = "f" -> "\f"
      [] c = "n" -> "\n"
      [] c = "r" -> "\r"
      [] c = "t" -> "\t"
      [] OTHER -> c

\* chr(int(hex4, 16)); the only hex digit of the alphabet is "1".
UnicodeChar(hex4) == IF hex4 = <<"1", "1", "1", "1">> THEN "<U+1111>" ELSE "<U+xxxx>"

\* py_scanstring from index i, the first character after the opening quote.
RECURSIVE scanstring(_, _, _)
scanstring(s, i, acc) ==
    IF i > Len(s) THEN ScanFail(TRUE)
    ELSE IF s[i] = Q THEN ScanOk(PyStr(acc), i + 1)
    ELSE IF s[i] \in ControlChars THEN ScanFail(FALSE)
    ELSE IF s[i] # Backslash THEN scanstring(s, i + 1, Append(acc, s[i]))
    ELSE IF i + 1 > Len(s) THEN ScanFail(TRUE)
    ELSE IF s[i + 1] = "u" THEN
        LET hex == SubSeq(s, i + 2, IF i + 5 <= Len(s) THEN i + 5 ELSE Len(s)) IN
        IF \E k \in 1..Len(hex) : hex[k] \notin HexChars THEN ScanFail(FALSE)
        ELSE IF Len(hex) < 4 THEN ScanFail(TRUE)
        ELSE scanstring(s, i + 6, Append(acc, UnicodeChar(hex)))
    ELSE IF s[i + 1] \in EscapeChars THEN
        scanstring(s, i + 2, Append(acc, Unescape(s[i + 1])))
    ELSE ScanFail(FALSE)

\* The index after the run of digits that starts at i.
RECURSIVE digits_end(_, _)
digits_end(s, i) ==
    IF i <= Len(s) /\ s[i] \in DigitChars THEN digits_end(s, i + 1) ELSE i

\* NUMBER_RE.match at i, (-?(?:0|[1-9]\d*))(\.\d+)?, then int() or float().
\* The exponent part needs "e" or "E", which are outside the alphabet.
scan_number(s, i) ==
    LET j == IF i <= Len(s) /\ s[i] = "-" THEN i + 1 ELSE i
        k == IF j <= Len(s) /\ s[j] = "0" THEN j + 1 ELSE digits_end(s, j)
        f == IF k + 1 <= Len(s) /\ s[k] = "." THEN digits_end(s, k + 1) ELSE k IN
    IF j > Len(s) THEN ScanFail(TRUE)
    ELSE IF k = j THEN ScanFail(FALSE)
    ELSE IF k = Len(s) /\ s[k] = "." THEN ScanFail(TRUE)
    ELSE IF f > k + 1 THEN ScanOk(PyFloat(FloatDigits(SubSeq(s, i, f - 1))), f)
    ELSE ScanOk(PyInt(IntDigits(SubSeq(s, i, k - 1))), k)

\* s[i:i+len(lit)] == lit, with eof when the text ends inside the literal.
scan_literal(s, i, lit, v) ==
    LET rest == Drop(s, i - 1) IN
    IF startswith(rest, lit) THEN ScanOk(v, i + Len(lit))
    ELSE ScanFail(Len(rest) < Len(lit) /\ rest = Take(lit, Len(rest)))

RECURSIVE scan_once(_, _)
RECURSIVE JSONArray(_, _, _)
RECURSIVE JSONObject(_, _, _)

\* json.scanner.py_make_scanner._scan_once
scan_once(s, i) ==
    IF i > Len(s) THEN ScanFail(TRUE)
    ELSE IF s[i] = Q THEN scanstring(s, i + 1, <<>>)
    ELSE IF s[i] = "{" THEN
        LET j == skip_ws(s, i + 1) IN
        IF j > Len(s) THEN ScanFail(TRUE)
        ELSE IF s[j] = "}" THEN ScanOk(PyDict(<<>>), j + 1)
        ELSE IF s[j] # Q THEN ScanFail(FALSE)
        ELSE JSONObject(s, j, <<>>)
    ELSE IF s[i] = "[" THEN
        LET j == skip_ws(s, i + 1) IN
        IF j > Len(s) THEN ScanFail(TRUE)
        ELSE IF s[j] = "]" THEN ScanOk(PyList(<<>>), j + 1)
        ELSE JSONArray(s, j, <<>>)
    ELSE IF s[i] = "n" THEN scan_literal(s, i, <<"n", "u", "l", "l">>, PyNone)
    ELSE IF s[i] = "t" THEN scan_literal(s, i, <<"t", "r", "u", "e">>, PyTrue)
    ELSE IF s[i] = "f" THEN scan_literal(s, i, <<"f", "a", "l", "s", "e">>, PyFalse)
    ELSE IF s[i] \in DigitChars \cup {"-"} THEN scan_number(s, i)
    ELSE ScanFail(FALSE)

\* json.decoder.JSONArray from index i, where an element must start.
JSONArray(s, i, acc) ==
    LET e == scan_once(s, i)
        j == skip_ws(s, e.i) IN
    IF ~e.ok THEN e
    ELSE IF j > Len(s) THEN ScanFail(TRUE)
    ELSE IF s[j] = "]" THEN ScanOk(PyList(Append(acc, e.v)), j + 1)
    ELSE IF s[j] # "," THEN ScanFail(FALSE)
    ELSE JSONArray(s, skip_ws(s, j + 1), Append(acc, e.v))

\* json.decoder.JSONObject from index i, which holds the quote of a key.
JSONObject(s, i, acc) ==
    With(scanstring(s, i + 1, <<>>), LAMBDA k :
    LET c == skip_ws(s, k.i)
        v == scan_once(s, skip_ws(s, c + 1))
        j == skip_ws(s, v.i)
        n == skip_ws(s, j + 1) IN
    IF ~k.ok THEN k
    ELSE IF c > Len(s) THEN ScanFail(TRUE)
    ELSE IF s[c] # ":" THEN ScanFail(FALSE)
    ELSE IF ~v.ok THEN v
    ELSE IF j > Len(s) THEN ScanFail(TRUE)
    ELSE IF s[j] = "}" THEN ScanOk(PyDict(DictSet(acc, k.v, v.v)), j + 1)
    ELSE IF s[j] # "," THEN ScanFail(FALSE)
    ELSE IF n > Len(s) THEN ScanFail(TRUE)
    ELSE IF s[n] # Q THEN ScanFail(FALSE)
    ELSE JSONObject(s, n, DictSet(acc, k.v, v.v)))

\* json.loads(s): one value between optional whitespace, nothing after it.
json_loads(s) ==
    With(scan_once(s, skip_ws(s, 1)), LAMBDA r :
    IF ~r.ok THEN r
    ELSE IF skip_ws(s, r.i) <= Len(s) THEN ScanFail(FALSE)
    ELSE r)

----------------------------------------------------------------------------
(* The encoder: json.dumps with its default separators and ensure_ascii *)

\* py_encode_basestring_ascii on one character
EscapeChar(c) ==
    CASE c = Q -> <<Backslash, Q>>
      [] c = Backslash -> <<Backslash, Backslash>>
      [] c = "\n" -> <<Backslash, "n">>
      [] c = "\r" -> <<Backslash, "r">>
      [] c = "\t" -> <<Backslash, "t">>
      [] c = "\f" -> <<Backslash, "f">>
      [] c = "<BS>" -> <<Backslash, "b">>
      [] c = "<U+1111>" -> <<Backslash, "u", "1", "1", "1", "1">>
      [] OTHER -> <<c>>

RECURSIVE EscapeAll(_)
EscapeAll(s) == IF s = <<>> THEN <<>> ELSE EscapeChar(s[1]) \o EscapeAll(Tail(s))

encode_str(s) == <<Q>> \o EscapeAll(s) \o <<Q>>

\* The text json.dumps writes for a dict key: a str as it is, a number by
\* its repr, True, False and None by their JSON literals.
key_text(k) ==
    IF k.t = "str" THEN k.s
    ELSE IF k.t = "NoneType" THEN <<"n", "u", "l", "l">>
    ELSE IF k = PyTrue THEN <<"t", "r", "u", "e">>
    ELSE IF k = PyFalse THEN <<"f", "a", "l", "s", "e">>
    ELSE k.s

RECURSIVE json_dumps(_)
RECURSIVE dumps_list(_, _)
RECURSIVE dumps_items(_, _)

json_dumps(v) ==
    IF v.t = "NoneType" THEN <<"n", "u", "l", "l">>
    ELSE IF v.t = "bool" THEN key_text(v)
    ELSE IF v.t \in {"int", "float"} THEN v.s
    ELSE IF v.t = "str" THEN encode_str(v.s)
    ELSE IF v.t = "list" THEN <<"[">> \o dumps_list(v.kids, 1) \o <<"]">>
    ELSE <<"{">> \o dumps_items(v.kids, 1) \o <<"}">>

dumps_list(elems, i) ==
    IF i > Len(elems) THEN <<>>
    ELSE (IF i > 1 THEN <<",", " ">> ELSE <<>>)
         \o json_dumps(elems[i]) \o dumps_list(elems, i + 1)

dumps_items(items, i) ==
    IF i > Len(items) THEN <<>>
    ELSE (IF i > 1 THEN <<",", " ">> ELSE <<>>)
         \o encode_str(key_text(ItemKey(items[i]))) \o <<":", " ">>
         \o json_dumps(ItemValue(items[i])) \o dumps_items(items, i + 1)

----------------------------------------------------------------------------
(* The fragment parsers *)

\* What a fragment parser hands back: (value, remainder, is_complete), or the
\* exception it raised.  why and at tell which raise statement ran and on
\* what remaining text; log lists the fragment parsers that returned inside
\* this one, innermost first.
Returned(v, rest, complete, log) ==
    [st |-> "returned", v |-> v, rest |-> rest, complete |-> complete,
     why |-> "", at |-> <<>>, log |-> log]

Raised(why, at) ==
    [st |-> "JSONDecodeError", v |-> NoValue, rest |-> <<>>, complete |-> FALSE,
     why |-> why, at |-> at, log |-> <<>>]

\* acc[key] on an unhashable key
TypeError(at) ==
    [st |-> "TypeError", v |-> NoValue, rest |-> <<>>, complete |-> FALSE,
     why |-> "unhashable", at |-> at, log |-> <<>>]

\* The call budget ran out: the parser did not get through the text in as
\* many calls and loop rounds as the text has characters.
Diverged(at) ==
    [st |-> "diverged", v |-> NoValue, rest |-> <<>>, complete |-> FALSE,
     why |-> "budget", at |-> at, log |-> <<>>]

\* One returned fragment: the lengths of the text it was given and of the
\* remainder it handed back, its flag, the flags of the children it parsed,
\* whether it took a dangling-key or missing-value branch, whether it saw
\* its closing delimiter, its value, and how many fragments returned inside it.
Entry(kind, given, r, flags, dangling, closed) ==
    [kind |-> kind, given |-> given, left |-> Len(r.rest), complete |-> r.complete,
     flags |-> flags, dangling |-> dangling, closed |-> closed, v |-> r.v,
     size |-> Len(r.log)]

Logged(r, kind, given, flags, dangling, closed) ==
    [r EXCEPT !.log = Append(r.log, Entry(kind, given, r, flags, dangling, closed))]

\* The first unescaped quote at or after end: a quote right after a
\* backslash is passed over.
RECURSIVE closing_quote(_, _)
closing_quote(s, end) ==
    IF end # 0 /\ s[end - 1] = Backslash
    THEN closing_quote(s, find(s, Q, end + 1))
    ELSE end

parse_string(s) ==
    LET end == closing_quote(s, find(s, Q, 2))
        str_val == Take(s, end) IN
    IF end = 0 THEN
        Logged(Returned(PyStr(Drop(s, 1)), <<>>, FALSE, <<>>),
               "string", Len(s), <<>>, FALSE, FALSE)
    ELSE With(json_loads(str_val), LAMBDA decoded :
        IF ~decoded.ok THEN Raised("string", s)
        ELSE Logged(Returned(decoded.v, Drop(s, end), TRUE, <<>>),
                    "string", Len(s), <<>>, FALSE, TRUE))

\* The length of the leading run of number characters.
RECURSIVE number_run(_, _)
number_run(s, i) ==
    IF i < Len(s) /\ s[i + 1] \in NumberChars THEN number_run(s, i + 1) ELSE i

parse_number(s) ==
    LET i == number_run(s, 0)
        num_str == Take(s, i)
        rest == Drop(s, i) IN
    IF num_str = <<>> \/ endswith(num_str, ".") \/ endswith(num_str, "-") THEN
        Logged(Returned(PyStr(num_str), <<>>, FALSE, <<>>),
               "number", Len(s), <<>>, FALSE, FALSE)
    ELSE IF Contains(num_str, ".") \/ Contains(num_str, "e") \/ Contains(num_str, "E") THEN
        IF FloatOk(num_str)
        THEN Logged(Returned(PyFloat(FloatDigits(num_str)), rest, TRUE, <<>>),
                    "number", Len(s), <<>>, FALSE, TRUE)
        ELSE Raised("number", s)
    ELSE IF IntOk(num_str)
        THEN Logged(Returned(PyInt(IntDigits(num_str)), rest, TRUE, <<>>),
                    "number", Len(s), <<>>, FALSE, TRUE)
        ELSE Raised("number", s)

parse_true(s) ==
    IF startswith(s, <<"t", "r", "u", "e">>)
    THEN Logged(Returned(PyTrue, Drop(s, 4), TRUE, <<>>), "true", Len(s), <<>>, FALSE, TRUE)
    ELSE Raised("literal", s)

parse_false(s) ==
    IF startswith(s, <<"f", "a", "l", "s", "e">>)
    THEN Logged(Returned(PyFalse, Drop(s, 5), TRUE, <<>>), "false", Len(s), <<>>, FALSE, TRUE)
    ELSE Raised("literal", s)

\* parse_null comparing the whole remaining text with the literal.
parse_null_whole_text(s) ==
    IF s = <<"n", "u", "l", "l">>
    THEN Logged(Returned(PyNone, Drop(s, 4), TRUE, <<>>), "null", Len(s), <<>>, FALSE, TRUE)
    ELSE Raised("literal", s)

parse_null(s) ==
    IF startswith(s, <<"n", "u", "l", "l">>)
    THEN Logged(Returned(PyNone, Drop(s, 4), TRUE, <<>>), "null", Len(s), <<>>, FALSE, TRUE)
    ELSE Raised("literal", s)

\* s = s[1:] when s starts with a comma, then s.strip()
SkipComma(s) == IF startswith(s, <<",">>) THEN strip(Tail(s)) ELSE s

\* The characters self.parsers has an entry for.
Registered == SpaceChars \cup {"[", "{", Q, "t", "f", "n"} \cup NumberChars

RECURSIVE parse_any(_, _)
RECURSIVE parse_space(_, _)
RECURSIVE parse_array(_, _)
RECURSIVE array_loop(_, _, _, _, _, _, _, _)
RECURSIVE parse_object(_, _)
RECURSIVE object_loop(_, _, _, _, _, _, _, _)

\* budget bounds the depth of the calls below this one.
parse_any(s, budget) ==
    IF s = <<>> THEN Raised("dispatch", s)
    ELSE IF s[1] \notin Registered THEN Raised("dispatch", s)
    ELSE IF budget = 0 THEN Diverged(s)
    ELSE IF s[1] \in SpaceChars THEN parse_space(s, budget - 1)
    ELSE IF s[1] = "[" THEN parse_array(s, budget - 1)
    ELSE IF s[1] = "{" THEN parse_object(s, budget - 1)
    ELSE IF s[1] = Q THEN parse_string(s)
    ELSE IF s[1] = "t" THEN parse_true(s)
    ELSE IF s[1] = "f" THEN parse_false(s)
    ELSE IF s[1] = "n" THEN parse_null(s)
    ELSE parse_number(s)

\* parse_space redispatching on the text as given.
parse_space_unstripped(s, budget) ==
    LET r == parse_any(s, budget) IN
    IF r.st # "returned" THEN r
    ELSE Logged(r, "space", Len(s), <<r.complete>>, FALSE, TRUE)

parse_space(s, budget) ==
    LET r == parse_any(strip(s), budget) IN
    IF r.st # "returned" THEN r
    ELSE Logged(r, "space", Len(s), <<r.complete>>, FALSE, TRUE)

\* The while loop of parse_array; rounds bounds its iterations.
array_loop(s, acc, has_any_incomplete, flags, log, given, budget, rounds) ==
    IF s = <<>> THEN
        Logged(Returned(PyList(acc), s, ~has_any_incomplete, log),
               "array", given, flags, FALSE, FALSE)
    ELSE IF s[1] = "]" THEN
        Logged(Returned(PyList(acc), Tail(s), ~has_any_incomplete, log),
               "array", given, flags, FALSE, TRUE)
    ELSE IF rounds = 0 THEN Diverged(s)
    ELSE
        LET r == parse_any(s, budget) IN
        IF r.st # "returned" THEN r
        ELSE array_loop(SkipComma(strip(r.rest)), Append(acc, r.v),
                        has_any_incomplete \/ ~r.complete, Append(flags, r.complete),
                        log \o r.log, given, budget, rounds - 1)

\* parse_array counting a missing closing bracket as incompleteness.
parse_array_wants_bracket(s, budget) ==
    LET r == array_loop(strip(Tail(s)), <<>>, FALSE, <<>>, <<>>, Len(s), budget, Len(s)) IN
    IF r.st = "returned" /\ ~r.log[Len(r.log)].closed
    THEN [r EXCEPT !.complete = FALSE, !.log[Len(r.log)].complete = FALSE]
    ELSE r

parse_array(s, budget) ==
    array_loop(strip(Tail(s)), <<>>, FALSE, <<>>, <<>>, Len(s), budget, Len(s))

\* The while loop of parse_object.
object_loop(s, acc, has_any_incomplete, flags, log, given, budget, rounds) ==
    IF s = <<>> THEN
        Logged(Returned(PyDict(acc), s, ~has_any_incomplete, log),
               "object", given, flags, FALSE, FALSE)
    ELSE IF s[1] = "}" THEN
        Logged(Returned(PyDict(acc), Tail(s), ~has_any_incomplete, log),
               "object", given, flags, FALSE, TRUE)
    ELSE IF rounds = 0 THEN Diverged(s)
    ELSE
        LET k == parse_any(s, budget)
            s1 == strip(k.rest)
            s2 == strip(Tail(s1))
            v == parse_any(s2, budget) IN
        IF k.st # "returned" THEN k
        ELSE IF s1 = <<>> \/ s1[1] = "}" THEN
            \* the object ends after a key
            IF ~Hashable(k.v) THEN TypeError(s1)
            ELSE Logged(Returned(PyDict(DictSet(acc, k.v, PyNone)), s1, FALSE, log \o k.log),
                        "object", given, Append(flags, k.complete), TRUE, FALSE)
        ELSE IF s1[1] # ":" THEN Raised("colon", s1)
        ELSE IF s2 = <<>> \/ s2[1] \in {",", "}"} THEN
            \* the value is missing
            IF ~Hashable(k.v) THEN TypeError(s2)
            ELSE Logged(Returned(PyDict(DictSet(acc, k.v, PyNone)),
                                 IF startswith(s2, <<",">>) THEN Tail(s2) ELSE s2,
                                 FALSE, log \o k.log),
                        "object", given, Append(flags, k.complete), TRUE, FALSE)
        ELSE IF v.st # "returned" THEN v
        ELSE IF ~Hashable(k.v) THEN TypeError(v.rest)
        ELSE object_loop(SkipComma(strip(v.rest)), DictSet(acc, k.v, v.v),
                         has_any_incomplete \/ ~k.complete \/ ~v.complete,
                         flags \o <<k.complete, v.complete>>,
                         log \o k.log \o v.log, given, budget, rounds - 1)

parse_object(s, budget) ==
    object_loop(strip(Tail(s)), <<>>, FALSE, <<>>, <<>>, Len(s), budget, Len(s))

----------------------------------------------------------------------------
(* JSONParser.parse *)

\* self.last_parse_reminding = None: no text is this one-element sequence,
\* a text being made of single characters.
None == <<"None">>

NotCalled ==
    [st |-> "not called", v |-> NoValue, rest |-> <<>>, complete |-> FALSE,
     why |-> "", at |-> <<>>, log |-> <<>>]

\* complete_keys[:-1]
AllButLast(keys) == SubSeq(keys, 1, Len(keys) - 1)

\* The recovery path reporting every key.
recovered_keys_all(res) == IF res.t = "dict" THEN DictKeys(res) ELSE <<>>

\* The keys of the recovered value that parse reports.
recovered_keys(res) ==
    IF res.t = "dict" THEN
        (IF Len(DictKeys(res)) = 0 THEN <<>> ELSE AllButLast(DictKeys(res)))
    ELSE <<>>

\* The keys of a strictly decoded value that parse reports.
strict_keys(res) == IF res.t = "dict" THEN DictKeys(res) ELSE <<>>

\* The hook called without looking at the remainder.
extra_token_calls_unguarded(s, data, reminding) ==
    <<[text |-> s, data |-> data, reminding |-> reminding]>>

\* self.on_extra_token(s, data, reminding) when the hook is set and the
\* remainder is not empty.
extra_token_calls(s, data, reminding) ==
    IF reminding # <<>>
    THEN <<[text |-> s, data |-> data, reminding |-> reminding]>>
    ELSE <<>>

\* parse(s) on an instance whose last_parse_reminding is lpr: the state the
\* call leaves behind.
parse(s, lpr) ==
    IF Len(s) >= 1 THEN
        With(json_loads(s), LAMBDA strict :
        IF strict.ok THEN
            [outcome |-> "returned", result |-> strict.v,
             complete_keys |-> strict_keys(strict.v), last_parse_reminding |-> lpr,
             hook_calls |-> <<>>, strict_ok |-> TRUE, frag |-> NotCalled]
        ELSE With(parse_any(s, Len(s)), LAMBDA r :
        IF r.st # "returned" THEN
            [outcome |-> r.st, result |-> NoValue, complete_keys |-> <<>>,
             last_parse_reminding |-> lpr, hook_calls |-> <<>>,
             strict_ok |-> FALSE, frag |-> r]
        ELSE With(json_loads(json_dumps(r.v)), LAMBDA normal :
        IF ~normal.ok THEN
            [outcome |-> "JSONDecodeError", result |-> NoValue, complete_keys |-> <<>>,
             last_parse_reminding |-> r.rest,
             hook_calls |-> extra_token_calls(s, r.v, r.rest),
             strict_ok |-> FALSE, frag |-> r]
        ELSE
            [outcome |-> "returned", result |-> normal.v,
             complete_keys |-> recovered_keys(normal.v),
             last_parse_reminding |-> r.rest,
             hook_calls |-> extra_token_calls(s, r.v, r.rest),
             strict_ok |-> FALSE, frag |-> r])))
    ELSE
        [outcome |-> "returned", result |-> PyDict(<<>>), complete_keys |-> <<>>,
         last_parse_reminding |-> lpr, hook_calls |-> <<>>,
         strict_ok |-> FALSE, frag |-> NotCalled]

----------------------------------------------------------------------------
(* The texts the parser is given *)

\* Every text of at most MaxFree characters is tried.
MaxFree == 3

\* Longer texts are the prefixes of documents: arrays of at most MaxElems
\* elements and objects of at most MaxKeys members over a few keys and
\* values, written compactly or with a leading space and a space after
\* every comma and colon.
MaxElems == 2
MaxKeys == 2

KeyTexts == {<<Q, "l", Q>>, <<Q, "l", "l", Q>>}

ValueTexts ==
    {<<"1">>, <<"-", "1", ".", "1">>, <<Q, "l", Q>>, <<Q, Backslash, Backslash, Q>>,
     <<"n", "u", "l", "l">>, <<"[", "1", "]">>}

Styles ==
    {[lead |-> <<>>, comma |-> <<",">>, colon |-> <<":">>],
     [lead |-> <<" ">>, comma |-> <<",", " ">>, colon |-> <<":", " ">>]}

Members(style) == {k \o style.colon \o v : k \in KeyTexts, v \in ValueTexts}

RECURSIVE Joined(_, _, _)
Joined(parts, comma, n) ==
    IF n = 1 THEN parts
    ELSE {b \o comma \o p : b \in Joined(parts, comma, n - 1), p \in parts}

Arrays(style) ==
    {style.lead \o <<"[">> \o b \o <<"]">> :
        b \in UNION {Joined(ValueTexts, style.comma, n) : n \in 1..MaxElems}}

Objects(style) ==
    {style.lead \o <<"{">> \o b \o <<"}">> :
        b \in UNION {Joined(Members(style), style.comma, n) : n \in 1..MaxKeys}}

Documents == UNION {Arrays(style) \cup Objects(style) : style \in Styles}

DocumentPrefixes == UNION {{SubSeq(d, 1, n) : n \in 1..Len(d)} : d \in Documents}

\* An instance that has parsed a stream may be handed one unrelated text:
\* the empty text or a single character.
OtherTexts == {<<>>} \cup {<<c>> : c \in Alphabet}

----------------------------------------------------------------------------
(* The state machine: one parser instance and the calls made on it *)

Init ==
    /\ text = <<>>
    /\ outcome = "not called"
    /\ result = NoValue
    /\ complete_keys = <<>>
    /\ last_parse_reminding = None
    /\ hook_calls = <<>>
    /\ strict_ok = FALSE
    /\ frag = NotCalled
    /\ reused = FALSE

\* The call parse(s), whatever s is.
Call(s) ==
    \E after \in {parse(s, last_parse_reminding)} :
    /\ text' = s
    /\ outcome' = after.outcome
    /\ result' = after.result
    /\ complete_keys' = after.complete_keys
    /\ last_parse_reminding' = after.last_parse_reminding
    /\ hook_calls' = after.hook_calls
    /\ strict_ok' = after.strict_ok
    /\ frag' = after.frag

\* The producer has emitted one more character and the consumer parses the
\* text so far.
ParseNext ==
    \E c \in Alphabet :
        /\ ~reused
        /\ Len(text) < MaxFree \/ Append(text, c) \in DocumentPrefixes
        /\ Call(Append(text, c))
        /\ UNCHANGED reused

\* The same instance parses an unrelated text.
ParseOther ==
    \E s \in OtherTexts :
        /\ ~reused
        /\ Call(s)
        /\ reused' = TRUE

Next == ParseNext \/ ParseOther

Spec == Init /\ [][Next]_vars

----------------------------------------------------------------------------
(* Notions the properties are stated in *)

\* s is a prefix of some valid complete JSON text: the strict decoder
\* accepts it, or fails only because the text ended.
Viable(s) == LET r == json_loads(s) IN r.ok \/ r.eof

\* s holds a character other than whitespace.
HasToken(s) == strip(s) # <<>>

IsSuffix(t, s) == Len(t) <= Len(s) /\ SubSeq(s, Len(s) - Len(t) + 1, Len(s)) = t

\* The most recent call went through the recovery parser and it returned.
Recovered == outcome # "not called" /\ ~strict_ok /\ frag.st = "returned"

\* The value result holds for key k (k is among its keys).
ValueOf(d, k) == ItemValue(d.kids[KeyIndex(d.kids, k, 1)])

InKeys(keys, k) == \E i \in 1..Len(keys) : keys[i] = k

AllTrue(flags) == \A i \in 1..Len(flags) : flags[i]

Occurrences(s, c) == Cardinality({i \in 1..Len(s) : s[i] = c})

----------------------------------------------------------------------------
(* C1 *)

\* C1 (as claimed): whenever the text parsed is a prefix of a valid complete
\* JSON text and holds at least one token, parse returns a value; it raises
\* no structural error.
C1_PrefixSafety ==
    (outcome # "not called" /\ text # <<>> /\ Viable(text) /\ HasToken(text))
        => outcome = "returned"

----------------------------------------------------------------------------
(* C2 *)

\* C2 (as claimed): when the stream grows by one character and both calls
\* return an object for a text that is still a prefix of a valid document,
\* every key settled before is settled after and maps to the same value.
C2_MonotonicSettlement ==
    [][(/\ ~reused'
        /\ outcome = "returned" /\ outcome' = "returned"
        /\ result.t = "dict" /\ result'.t = "dict"
        /\ Viable(text'))
       => \A i \in 1..Len(complete_keys) :
            /\ InKeys(complete_keys', complete_keys[i])
            /\ ValueOf(result', complete_keys[i]) = ValueOf(result, complete_keys[i])]_vars

----------------------------------------------------------------------------
(* C3 *)

\* C3 (as claimed): whenever parse returns an object, the settled keys are
\* all of its keys except the last (none when it has zero or one key).
C3_AlwaysAllButLast ==
    (outcome = "returned" /\ result.t = "dict")
        => complete_keys = AllButLast(DictKeys(result))

\* C3 (amended): when parse returns an object, the settled keys are all of
\* its keys if the strict decoder accepted the text, and all of its keys
\* except the last otherwise, whatever the completeness flag of the
\* recovered object says.
C3_LastKeyRule ==
    (outcome = "returned" /\ result.t = "dict")
        => complete_keys = IF strict_ok THEN DictKeys(result)
                           ELSE AllButLast(DictKeys(result))

\* A recovered object of two keys, every fragment of it complete, whose last
\* key is left out all the same.
C3_Witness ==
    /\ Recovered /\ outcome = "returned" /\ result.t = "dict"
    /\ frag.complete
    /\ Len(DictKeys(result)) = 2
    /\ complete_keys = <<DictKeys(result)[1]>>

----------------------------------------------------------------------------
(* C4 *)

\* C4 (as claimed): parse raises a structural error only on a non-empty text
\* whose first significant character has no fragment parser, or where an
\* object key is followed by a character that is neither a colon, a comma
\* nor a closing brace.
C4_OnlyTwoCauses ==
    outcome = "JSONDecodeError" =>
        /\ text # <<>>
        /\ \/ lstrip(text) = <<>>
           \/ lstrip(text)[1] \notin Registered
           \/ frag.why = "colon" /\ frag.at # <<>> /\ frag.at[1] \notin {":", ",", "}"}

\* The text the raising fragment parser was given justifies the raise.
RaiseJustified(why, at) ==
    \/ /\ why = "dispatch"
       /\ at = <<>> \/ at[1] \notin SpaceChars \cup NumberChars \cup {"[", "{", Q, "t", "f", "n"}
    \/ /\ why = "colon"
       /\ at # <<>>
       /\ at[1] \notin {":", "}"}
    \/ /\ why = "literal"
       /\ at # <<>>
       /\ \/ at[1] = "t" /\ ~startswith(at, <<"t", "r", "u", "e">>)
          \/ at[1] = "f" /\ ~startswith(at, <<"f", "a", "l", "s", "e">>)
          \/ at[1] = "n" /\ ~startswith(at, <<"n", "u", "l", "l">>)
    \/ /\ why = "number"
       /\ LET run == Take(at, number_run(at, 0)) IN
          /\ run # <<>>
          /\ run[Len(run)] \in DigitChars
          /\ \/ Occurrences(run, ".") > 1
             \/ \E i \in 2..Len(run) : run[i] = "-"
    \/ /\ why = "string"
       /\ at # <<>> /\ at[1] = Q
       /\ \E end \in 2..Len(at) :
            /\ at[end] = Q /\ at[end - 1] # Backslash
            /\ \A j \in 2..(end - 1) : at[j] = Q => at[j - 1] = Backslash
            /\ ~json_loads(Take(at, end)).ok

\* C4 (amended): parse raises a structural error only when the text is not
\* empty, the strict decoder rejects it, and the recovery parser reaches a
\* dispatch point (top level or nested) with no text left or with a
\* character that has no fragment parser, an object key followed by a
\* character that is neither a colon nor a closing brace (a comma included),
\* a literal that does not match in full, a number run that int() or float()
\* rejects, or a closed string span that the strict decoder rejects.
C4_RaiseCauses ==
    outcome = "JSONDecodeError" =>
        /\ text # <<>>
        /\ ~strict_ok
        /\ frag.st = "JSONDecodeError"
        /\ RaiseJustified(frag.why, frag.at)

\* A raise on an object key followed by a comma.
C4_Witness ==
    /\ outcome = "JSONDecodeError"
    /\ frag.why = "colon"
    /\ frag.at[1] = ","

----------------------------------------------------------------------------
(* C5 *)

\* C5 (as claimed): every call of parse returns a value or raises the strict
\* decoder's decode error; nothing else escapes.
C5_ValueOrStructuralError ==
    outcome \in {"not called", "returned", "JSONDecodeError"}

----------------------------------------------------------------------------
(* C6 *)

\* C6 (as claimed): after a call that went through the recovery parser the
\* diagnostic field holds that call's remainder, and after a call the strict
\* decoder satisfied it is empty (None, the field's value before any
\* recovery, counts as empty here).
C6_RemainderOfLastCall ==
    /\ Recovered => last_parse_reminding = frag.rest
    /\ (outcome = "returned" /\ strict_ok) => last_parse_reminding \in {<<>>, None}

----------------------------------------------------------------------------
(* C7 *)

\* C7: a call invokes on_extra_token at most once, and exactly when the
\* strict decoder failed, the recovery parser returned and left text over;
\* the hook then receives the full text, the recovered value and the
\* remainder.
C7_HookOncePerCall ==
    /\ Len(hook_calls) <= 1
    /\ Len(hook_calls) = 1 <=>
         (text # <<>> /\ ~strict_ok /\ frag.st = "returned" /\ frag.rest # <<>>)
    /\ Len(hook_calls) = 1 =>
         hook_calls[1] = [text |-> text, data |-> frag.v, reminding |-> frag.rest]

\* A call that invoked the hook.
C7_Witness == Len(hook_calls) = 1 /\ outcome = "returned"

----------------------------------------------------------------------------
(* C8 *)

\* The entries of the fragments nested inside entry j of a log.
Nested(log, j) == (j - log[j].size)..(j - 1)

\* C8: the flag of every array that returned is true exactly when every
\* element's flag was; the flag of every object that returned is true exactly
\* when every key's and value's flag was and no dangling-key or missing-value
\* branch was taken; a missing closing delimiter plays no part; and an
\* incomplete fragment makes every fragment around it incomplete.
C8_CompletenessAggregation ==
    \A j \in 1..Len(frag.log) :
        LET e == frag.log[j] IN
        /\ e.kind = "array" => (e.complete <=> AllTrue(e.flags))
        /\ e.kind = "object" => (e.complete <=> (AllTrue(e.flags) /\ ~e.dangling))
        /\ \A i \in Nested(frag.log, j) : ~frag.log[i].complete => ~e.complete

\* An array or object that ran out of input before its closing delimiter,
\* holds another array or object, and is complete all the same.
C8_Witness ==
    /\ Recovered
    /\ \E j \in 1..Len(frag.log) :
         /\ frag.log[j].kind \in {"array", "object"}
         /\ ~frag.log[j].closed /\ frag.log[j].complete
         /\ \E i \in Nested(frag.log, j) :
              frag.log[i].kind \in {"array", "object"} /\ frag.log[i].flags # <<>>

----------------------------------------------------------------------------
(* C9 *)

\* C9: every call terminates within its budget of calls and loop rounds;
\* every fragment parser that returned handed back a remainder shorter than
\* the text it was given, and a whitespace redispatch went on with a
\* shorter text.
C9_Termination ==
    /\ outcome # "diverged"
    /\ \A j \in 1..Len(frag.log) :
        /\ frag.log[j].left < frag.log[j].given
        /\ frag.log[j].kind = "space" => frag.log[j - 1].given < frag.log[j].given

\* A call that went through a whitespace redispatch and a loop of two rounds.
C9_Witness ==
    /\ Recovered
    /\ \E j \in 1..Len(frag.log) : frag.log[j].kind = "space"
    /\ \E j \in 1..Len(frag.log) :
         frag.log[j].kind \in {"array", "object"} /\ Len(frag.log[j].flags) >= 2

----------------------------------------------------------------------------
(* C10 *)

\* C10 (as claimed): a string the input ends in is reported as the raw text
\* from its opening quote to the end of the input, with an empty remainder
\* and a false flag.
C10_UnterminatedStringIsRaw ==
    Recovered =>
        \A j \in 1..Len(frag.log) :
            (frag.log[j].kind = "string" /\ ~frag.log[j].complete) =>
                /\ IsSuffix(<<Q>> \o frag.log[j].v.s, text)
                /\ frag.log[j].left = 0
                /\ frag.rest = <<>>
                /\ ~frag.complete

====
